---- MODULE Spec2Model ----
(***************************************************************************)
(* Model of owrx/controllers/settings.py: the Section aggregation and the  *)
(* GeneralSettingsController write path (processFormData) over the shared  *)
(* Config store.                                                           *)
(*                                                                         *)
(* Python values are tagged tuples, so that a string, an integer, a        *)
(* boolean and a list are never confused: <<"str", s>>, <<"int", n>>,      *)
(* <<"bool", b>>, <<"list", q>>.  None is <<"None">>.  A Python dict is a  *)
(* sequence of <<key, value>> pairs in insertion order.  The Config store  *)
(* is a function over StoreKeys whose value Absent means "key not in the   *)
(* mapping".                                                               *)
(***************************************************************************)
EXTENDS Integers, Sequences, FiniteSets, TLC

VARIABLES
    sections,      \* GeneralSettingsController.sections (list of Section)
    config,        \* the mapping returned by Config.get() (shared, in memory)
    disk,          \* what Config.store() last made durable
    pc,            \* per handler thread: position inside processFormData
    body,          \* per thread: parse_qs(...) result, key -> list of strings
    data,          \* per thread: the dict built by line 368
    sec,           \* per thread: next Section of the comprehension of line 368
    idx,           \* per thread: next item of "for k, v in data.items()"
    cfg0,          \* per thread: config as it was when the request started
    disk0,         \* per thread: disk as it was when the request started
    persistCalls,  \* per thread: number of Config.store() calls of the request
    storeError,    \* per thread: Config.store() raised
    redirected,    \* per thread: send_redirect was called
    report,        \* per thread: the fields named by the raised error
    base,          \* per thread: config and disk when line 369 was reached
    nreq           \* number of requests begun

vars == <<sections, config, disk, pc, body, data, sec, idx, cfg0, disk0,
          persistCalls, storeError, redirected, report, base, nreq>>

----------------------------------------------------------------------------
(* Bounds *)

\* requests served in one run
MaxRequests == 2
\* total number of Inputs of a schema built in SpecSchema
MaxInputs == 3

Threads == {"t1", "t2"}

----------------------------------------------------------------------------
(* Python values *)

None == <<"None">>
Absent == <<"absent">>
PyStr(s) == <<"str", s>>
PyInt(n) == <<"int", n>>
PyBool(b) == <<"bool", b>>
PyList(q) == <<"list", q>>
SdrDevices == <<"dict", "rtlsdr">>

\* dict helpers: a dict is a sequence of <<k, v>> in insertion order
DictKeys(d) == {d[n][1] : n \in 1..Len(d)}
DictGet(d, k) == LET n == CHOOSE m \in 1..Len(d) : d[m][1] = k IN d[n][2]
DictPut(d, k, v) ==
    IF k \in DictKeys(d)
    THEN [n \in 1..Len(d) |-> IF d[n][1] = k THEN <<k, v>> ELSE d[n]]
    ELSE Append(d, <<k, v>>)

RECURSIVE DictUpdate(_, _)
\* insert the items of e into d, in order (what a dict comprehension does
\* with the items it is fed)
DictUpdate(d, e) ==
    IF e = << >> THEN d
    ELSE DictUpdate(DictPut(d, e[1][1], e[1][2]), Tail(e))

----------------------------------------------------------------------------
(* owrx.form Inputs (the classes themselves are outside this file) *)

\* the converter an Input has when none is given
Converter == "Converter"
OptionalConverter == "OptionalConverter"
ReceiverKeysConverter == "ReceiverKeysConverter"

Input(kind, id, converter, options) ==
    [id |-> id, kind |-> kind, converter |-> converter, options |-> options]

TextInput(id, converter) == Input("Text", id, converter, << >>)
TextAreaInput(id, converter) == Input("TextArea", id, converter, << >>)
NumberInput(id, converter) == Input("Number", id, converter, << >>)
FloatInput(id) == Input("Float", id, Converter, << >>)
LocationInput(id) == Input("Location", id, Converter, << >>)
AvatarInput(id) == Input("Avatar", id, Converter, << >>)
CheckboxInput(id) == Input("Checkbox", id, Converter, << >>)
DropdownInput(id, opts) == Input("Dropdown", id, Converter, opts)
MultiCheckboxInput(id, opts) == Input("MultiCheckbox", id, Converter, opts)
Js8ProfileCheckboxInput(id) == Input("Js8ProfileCheckbox", id, Converter, << >>)
ServicesCheckboxInput(id) == Input("ServicesCheckbox", id, Converter, << >>)
Q65ModeMatrix(id) == Input("Q65ModeMatrix", id, Converter, << >>)

\* the variants that store the set of submitted values
MultiSelectKinds == {"MultiCheckbox", "Js8ProfileCheckbox", "ServicesCheckbox",
                     "Q65ModeMatrix"}

\* option lists and enumerations imported from other modules; their
\* members are named after the import
WfmTauValues == <<"WfmTauValues.1", "WfmTauValues.2">>
AprsBeaconSymbols == <<"AprsBeaconSymbols.1", "AprsBeaconSymbols.2">>
AprsAntennaDirections == <<"AprsAntennaDirections.1", "AprsAntennaDirections.2">>
Fst4Intervals == <<"60", "120">>
Fst4wIntervals == <<"120", "300">>

Section(title, inputs) == [title |-> title, inputs |-> inputs]

\* int() and float(): the numerals among the submitted strings used here
DecimalLiterals == ("25" :> 25) @@ ("10" :> 10)

PyFloat(n) == <<"float", n>>

\* ReceiverKeysConverter: the lines of the submitted text
KeyLines(text) == IF text = "" THEN << >> ELSE <<text>>

SeqRange(q) == {q[n] : n \in 1..Len(q)}

Ok(items) == [ok |-> TRUE, items |-> items, field |-> ""]
Raise(field) == [ok |-> FALSE, items |-> << >>, field |-> field]

\* Input.parse(data): a dict holding exactly this Input's key, or a
\* ValidationError naming the field.  A checkbox is true when its field is
\* there and None otherwise; a multi-select stores the submitted values; any
\* other Input gives None for a field that is not there (and, with the
\* OptionalConverter, for an empty string) and decodes the first string
\* otherwise.
InputParse(inp, raw) ==
    LET r == raw[inp.id] IN
    IF inp.kind = "Checkbox"
    THEN Ok(<< <<inp.id, IF r # << >> THEN PyBool(TRUE) ELSE None>> >>)
    ELSE IF inp.kind \in MultiSelectKinds
    THEN Ok(<< <<inp.id, PyList(r)>> >>)
    ELSE IF r = << >>
    THEN Ok(<< <<inp.id, None>> >>)
    ELSE IF inp.converter = OptionalConverter /\ r[1] = ""
    THEN Ok(<< <<inp.id, None>> >>)
    ELSE IF inp.converter = ReceiverKeysConverter
    THEN Ok(<< <<inp.id, PyList(KeyLines(r[1]))>> >>)
    ELSE IF inp.kind = "Number"
    THEN IF r[1] \in DOMAIN DecimalLiterals
         THEN Ok(<< <<inp.id, PyInt(DecimalLiterals[r[1]])>> >>)
         ELSE Raise(inp.id)
    ELSE IF inp.kind = "Float"
    THEN IF r[1] \in DOMAIN DecimalLiterals
         THEN Ok(<< <<inp.id, PyFloat(DecimalLiterals[r[1]])>> >>)
         ELSE Raise(inp.id)
    ELSE IF inp.kind = "Dropdown"
    THEN IF r[1] \in SeqRange(inp.options)
         THEN Ok(<< <<inp.id, PyStr(r[1])>> >>)
         ELSE Raise(inp.id)
    ELSE Ok(<< <<inp.id, PyStr(r[1])>> >>)

----------------------------------------------------------------------------
(* Section.parse, settings.py line 52-53 *)

RECURSIVE ParseInputsSkipInvalid(_, _, _)
\* mutant: a failing Input is skipped instead of ending the parse
ParseInputsSkipInvalid(inputs, raw, acc) ==
    IF inputs = << >> THEN Ok(acc)
    ELSE LET r == InputParse(inputs[1], raw) IN
         ParseInputsSkipInvalid(Tail(inputs), raw,
                                IF r.ok THEN DictUpdate(acc, r.items) ELSE acc)

RECURSIVE ParseInputs(_, _, _)
\* the comprehension over self.inputs: each Input is parsed in declared
\* order and its items inserted; an exception leaves the comprehension at
\* once
ParseInputs(inputs, raw, acc) ==
    IF inputs = << >> THEN Ok(acc)
    ELSE LET r == InputParse(inputs[1], raw) IN
         IF r.ok THEN ParseInputs(Tail(inputs), raw, DictUpdate(acc, r.items))
         ELSE r

RECURSIVE DropNone(_)
DropNone(d) ==
    IF d = << >> THEN << >>
    ELSE IF d[1][2] = None THEN DropNone(Tail(d))
    ELSE <<d[1]>> \o DropNone(Tail(d))

\* mutant: entries whose value is None are left out of the result
SectionParseDropNone(section, raw) ==
    LET r == ParseInputs(section.inputs, raw, << >>) IN
    IF r.ok THEN Ok(DropNone(r.items)) ELSE r

SectionParse(section, raw) == ParseInputs(section.inputs, raw, << >>)

----------------------------------------------------------------------------
(* GeneralSettingsController.sections, settings.py line 96-343 *)

GeneralSettingsSections ==
    << Section("Receiver information",
               << TextInput("receiver_name", Converter),
                  TextInput("receiver_location", Converter),
                  NumberInput("receiver_asl", Converter),
                  TextInput("receiver_admin", Converter),
                  LocationInput("receiver_gps"),
                  TextInput("photo_title", Converter),
                  TextAreaInput("photo_desc", Converter) >>),
       Section("Receiver images",
               << AvatarInput("receiver_avatar") >>),
       Section("Receiver listings",
               << TextAreaInput("receiver_keys", ReceiverKeysConverter) >>),
       Section("Waterfall settings",
               << NumberInput("fft_fps", Converter),
                  NumberInput("fft_size", Converter),
                  FloatInput("fft_voverlap_factor"),
                  NumberInput("waterfall_min_level", Converter),
                  NumberInput("waterfall_max_level", Converter) >>),
       Section("Compression",
               << DropdownInput("audio_compression", <<"adpcm", "none">>),
                  DropdownInput("fft_compression", <<"adpcm", "none">>) >>),
       Section("Digimodes",
               << CheckboxInput("digimodes_enable"),
                  NumberInput("digimodes_fft_size", Converter) >>),
       Section("Demodulator settings",
               << NumberInput("squelch_auto_margin", Converter),
                  DropdownInput("wfm_deemphasis_tau", WfmTauValues) >>),
       Section("Display settings",
               << NumberInput("frequency_display_precision", Converter) >>),
       Section("Digital voice",
               << NumberInput("digital_voice_unvoiced_quality", Converter),
                  CheckboxInput("digital_voice_dmr_id_lookup") >>),
       Section("Map settings",
               << TextInput("google_maps_api_key", Converter),
                  NumberInput("map_position_retention_time", Converter) >>),
       Section("Decoding settings",
               << NumberInput("decoding_queue_workers", Converter),
                  NumberInput("decoding_queue_length", Converter),
                  NumberInput("wsjt_decoding_depth", Converter),
                  NumberInput("js8_decoding_depth", Converter),
                  Js8ProfileCheckboxInput("js8_enabled_profiles"),
                  MultiCheckboxInput("fst4_enabled_intervals", Fst4Intervals),
                  MultiCheckboxInput("fst4w_enabled_intervals", Fst4wIntervals),
                  Q65ModeMatrix("q65_enabled_combinations") >>),
       Section("Background decoding",
               << CheckboxInput("services_enabled"),
                  ServicesCheckboxInput("services_decoders") >>),
       Section("APRS settings",
               << TextInput("aprs_callsign", Converter),
                  CheckboxInput("aprs_igate_enabled"),
                  TextInput("aprs_igate_server", Converter),
                  TextInput("aprs_igate_password", Converter),
                  CheckboxInput("aprs_igate_beacon"),
                  DropdownInput("aprs_igate_symbol", AprsBeaconSymbols),
                  TextInput("aprs_igate_comment", OptionalConverter),
                  NumberInput("aprs_igate_height", OptionalConverter),
                  NumberInput("aprs_igate_gain", OptionalConverter),
                  DropdownInput("aprs_igate_dir", AprsAntennaDirections) >>),
       Section("pskreporter settings",
               << CheckboxInput("pskreporter_enabled"),
                  TextInput("pskreporter_callsign", Converter),
                  TextInput("pskreporter_antenna_information", OptionalConverter) >>),
       Section("WSPRnet settings",
               << CheckboxInput("wsprnet_enabled"),
                  TextInput("wsprnet_callsign", Converter) >>) >>

\* the Inputs of a schema, in order, and the keys they claim
RECURSIVE AllInputs(_)
AllInputs(secs) ==
    IF secs = << >> THEN << >> ELSE secs[1].inputs \o AllInputs(Tail(secs))

SchemaKeys(secs) == LET ins == AllInputs(secs) IN {ins[n].id : n \in 1..Len(ins)}

UniqueKeys(secs) ==
    LET ins == AllInputs(secs) IN
    \A m, n \in 1..Len(ins) : ins[m].id = ins[n].id => m = n

\* the fields of a submission whose Input.parse raises
InvalidFields(secs, raw) ==
    LET ins == AllInputs(secs) IN
    {ins[n].id : n \in {m \in 1..Len(ins) : ~InputParse(ins[m], raw).ok}}

\* a field that no Input claims; parse_qs keeps whatever keys a client sends
UnclaimedField == "debug"

FormKeys == SchemaKeys(GeneralSettingsSections) \cup {UnclaimedField}

StoreKeys == FormKeys \cup {"sdrs"}

NoForm == [k \in FormKeys |-> << >>]

\* the submission receiver_name=New&fft_fps=25, nothing else
ExampleForm == [NoForm EXCEPT !["receiver_name"] = <<"New">>, !["fft_fps"] = <<"25">>]

\* submissions that differ in a text field, a number field ("abc" is no
\* number), a dropdown ("flac" is none of its options) and a checkbox; a
\* field with << >> is not in the submitted data
VariedForms ==
    {[NoForm EXCEPT !["receiver_name"] = a, !["fft_fps"] = b,
                    !["audio_compression"] = c, !["aprs_igate_enabled"] = e] :
        a \in {<< >>, <<"New">>}, b \in {<< >>, <<"25">>, <<"abc">>},
        c \in {<< >>, <<"flac">>}, e \in {<< >>, <<"on">>}}

\* a submission with a value for Inputs of the other variants, two of them
\* with the OptionalConverter, and with a field no Input claims
FilledForm ==
    [NoForm EXCEPT !["receiver_name"] = <<"">>,
                   !["photo_desc"] = <<"Antenna">>,
                   !["receiver_keys"] = <<"key-1">>,
                   !["fft_voverlap_factor"] = <<"10">>,
                   !["audio_compression"] = <<"adpcm">>,
                   !["fst4_enabled_intervals"] = <<"60", "120">>,
                   !["services_decoders"] = <<"ft8">>,
                   !["aprs_igate_comment"] = <<"">>,
                   !["aprs_igate_height"] = <<"10">>,
                   ![UnclaimedField] = <<"1">>]

Forms == VariedForms \cup {FilledForm}

----------------------------------------------------------------------------
(* GeneralSettingsController.processFormData, settings.py line 366-377 *)

\* mutant: a submitted field that no Input claims is carried over into the
\* parsed dict
ComprehensionStartRaw(raw) ==
    IF raw[UnclaimedField] = << >> THEN << >>
    ELSE << <<UnclaimedField, PyList(raw[UnclaimedField])>> >>

\* line 368 builds a new dict: it starts empty, whatever the raw data holds
ComprehensionStart(raw) == << >>

\* line 371: "if v is None"
ItemIsNone(v) == v = None

\* mutant: a key to delete is never found
KeyInConfigNever(cfg, k) == FALSE

\* line 372: "if k in config"
KeyInConfig(cfg, k) == cfg[k] # Absent

\* line 373: "del config[k]"; a key that is not in the mapping (any more) is
\* a KeyError
DelItem(cfg, k) ==
    IF cfg[k] # Absent THEN [ok |-> TRUE, config |-> [cfg EXCEPT ![k] = Absent]]
    ELSE [ok |-> FALSE, config |-> cfg]

\* mutant: the assignment is dropped
SetItemIgnored(cfg, k, v) == cfg

\* line 375: "config[k] = v"
SetItem(cfg, k, v) == [cfg EXCEPT ![k] = v]

\* line 370: the loop goes on with the next item, or ends and line 376 follows
AfterItem(n, d) == IF n = Len(d) THEN "store" ELSE "apply"

\* Config.store(): the mapping is made durable as a whole, or the call
\* raises and the durable copy stays as it was
ConfigStore(cfg, dsk) == {[ok |-> TRUE, disk |-> cfg], [ok |-> FALSE, disk |-> dsk]}

\* mutant: a raising Config.store() is swallowed
AfterStoreAlwaysRedirect(ok) == "redirect"

\* line 376-377: send_redirect follows Config.store() and is skipped when
\* that raises
AfterStore(ok) == IF ok THEN "redirect" ELSE "failed"

\* mutant: the loop over data.items() is skipped
AfterParseSkipLoop(d) == "store"

\* line 368-370: after the comprehension, the loop (or line 376 at once
\* when the dict is empty)
AfterParse(d) == IF d = << >> THEN "store" ELSE "apply"

Idle == [t \in Threads |-> "idle"]

ThreadInit ==
    /\ pc = Idle
    /\ body = [t \in Threads |-> NoForm]
    /\ data = [t \in Threads |-> << >>]
    /\ sec = [t \in Threads |-> 0]
    /\ idx = [t \in Threads |-> 0]
    /\ cfg0 = [t \in Threads |-> config]
    /\ disk0 = [t \in Threads |-> config]
    /\ persistCalls = [t \in Threads |-> 0]
    /\ storeError = [t \in Threads |-> FALSE]
    /\ redirected = [t \in Threads |-> FALSE]
    /\ report = [t \in Threads |-> {}]
    /\ base = [t \in Threads |-> [config |-> config, disk |-> config]]
    /\ nreq = 0

\* line 366-368: a POST arrives and its body is decoded; the comprehension
\* of line 368 starts with the first Section, and is over at once when the
\* schema has no Section
Begin(t, forms) ==
    /\ pc[t] = "idle"
    /\ nreq < MaxRequests
    /\ \E f \in forms : body' = [body EXCEPT ![t] = f]
    /\ data' = [data EXCEPT ![t] = ComprehensionStart(body'[t])]
    /\ pc' = [pc EXCEPT ![t] = IF sections = << >> THEN AfterParse(data'[t])
                                ELSE "parse"]
    /\ sec' = [sec EXCEPT ![t] = 1]
    /\ idx' = [idx EXCEPT ![t] = IF sections = << >> THEN 1 ELSE 0]
    /\ cfg0' = [cfg0 EXCEPT ![t] = config]
    /\ disk0' = [disk0 EXCEPT ![t] = disk]
    /\ persistCalls' = [persistCalls EXCEPT ![t] = 0]
    /\ storeError' = [storeError EXCEPT ![t] = FALSE]
    /\ redirected' = [redirected EXCEPT ![t] = FALSE]
    /\ report' = [report EXCEPT ![t] = {}]
    /\ base' = [base EXCEPT ![t] = [config |-> config, disk |-> disk]]
    /\ nreq' = nreq + 1
    /\ UNCHANGED <<sections, config, disk>>

\* line 368: the next Section's parse, its items inserted into the new dict;
\* an exception of an Input leaves processFormData
ParseSection(t) ==
    /\ pc[t] = "parse"
    /\ LET r == SectionParse(sections[sec[t]], body[t]) IN
       IF r.ok
       THEN LET d == DictUpdate(data[t], r.items) IN
            /\ data' = [data EXCEPT ![t] = d]
            /\ sec' = [sec EXCEPT ![t] = @ + 1]
            /\ IF sec[t] = Len(sections)
               THEN /\ pc' = [pc EXCEPT ![t] = AfterParse(d)]
                    /\ idx' = [idx EXCEPT ![t] = 1]
                    /\ base' = [base EXCEPT ![t] = [config |-> config, disk |-> disk]]
               ELSE UNCHANGED <<pc, idx, base>>
            /\ UNCHANGED report
       ELSE /\ pc' = [pc EXCEPT ![t] = "error"]
            /\ report' = [report EXCEPT ![t] = {r.field}]
            /\ UNCHANGED <<data, sec, idx, base>>
    /\ UNCHANGED <<sections, config, disk, body, cfg0, disk0, persistCalls,
                   storeError, redirected, nreq>>

\* line 370-372, 375: the next item of data.  A value is assigned; for None
\* the key is looked up, and line 373 follows when it is in the mapping
ApplyKey(t) ==
    /\ pc[t] = "apply"
    /\ LET k == data[t][idx[t]][1]
           v == data[t][idx[t]][2] IN
       IF ItemIsNone(v)
       THEN /\ config' = config
            /\ IF KeyInConfig(config, k)
               THEN /\ pc' = [pc EXCEPT ![t] = "del"]
                    /\ idx' = idx
               ELSE /\ pc' = [pc EXCEPT ![t] = AfterItem(idx[t], data[t])]
                    /\ idx' = [idx EXCEPT ![t] = @ + 1]
       ELSE /\ config' = SetItem(config, k, v)
            /\ pc' = [pc EXCEPT ![t] = AfterItem(idx[t], data[t])]
            /\ idx' = [idx EXCEPT ![t] = @ + 1]
    /\ UNCHANGED <<sections, disk, body, data, sec, cfg0, disk0, persistCalls,
                   storeError, redirected, report, base, nreq>>

\* line 373: the key found by line 372 is deleted; when it went away in
\* between, the KeyError leaves processFormData
DeleteKey(t) ==
    /\ pc[t] = "del"
    /\ LET r == DelItem(config, data[t][idx[t]][1]) IN
       IF r.ok
       THEN /\ config' = r.config
            /\ pc' = [pc EXCEPT ![t] = AfterItem(idx[t], data[t])]
            /\ idx' = [idx EXCEPT ![t] = @ + 1]
       ELSE /\ config' = config
            /\ pc' = [pc EXCEPT ![t] = "keyerror"]
            /\ idx' = idx
    /\ UNCHANGED <<sections, disk, body, data, sec, cfg0, disk0, persistCalls,
                   storeError, redirected, report, base, nreq>>

\* line 376: Config.store()
Store(t) ==
    /\ pc[t] = "store"
    /\ \E o \in ConfigStore(config, disk) :
          /\ disk' = o.disk
          /\ pc' = [pc EXCEPT ![t] = AfterStore(o.ok)]
          /\ storeError' = [storeError EXCEPT ![t] = ~o.ok]
    /\ persistCalls' = [persistCalls EXCEPT ![t] = @ + 1]
    /\ UNCHANGED <<sections, config, body, data, sec, idx, cfg0, disk0,
                   redirected, report, base, nreq>>

\* line 377: send_redirect("/generalsettings")
Redirect(t) ==
    /\ pc[t] = "redirect"
    /\ redirected' = [redirected EXCEPT ![t] = TRUE]
    /\ pc' = [pc EXCEPT ![t] = "done"]
    /\ UNCHANGED <<sections, config, disk, body, data, sec, idx, cfg0, disk0,
                   persistCalls, storeError, report, base, nreq>>

\* processFormData has returned or raised: the handler thread is free again
Finish(t) ==
    /\ pc[t] \in {"done", "error", "failed", "keyerror"}
    /\ pc' = [pc EXCEPT ![t] = "idle"]
    /\ body' = [body EXCEPT ![t] = NoForm]
    /\ data' = [data EXCEPT ![t] = << >>]
    /\ sec' = [sec EXCEPT ![t] = 0]
    /\ idx' = [idx EXCEPT ![t] = 0]
    /\ cfg0' = [cfg0 EXCEPT ![t] = config]
    /\ disk0' = [disk0 EXCEPT ![t] = disk]
    /\ persistCalls' = [persistCalls EXCEPT ![t] = 0]
    /\ storeError' = [storeError EXCEPT ![t] = FALSE]
    /\ redirected' = [redirected EXCEPT ![t] = FALSE]
    /\ report' = [report EXCEPT ![t] = {}]
    /\ base' = [base EXCEPT ![t] = [config |-> config, disk |-> disk]]
    /\ UNCHANGED <<sections, config, disk, nreq>>

----------------------------------------------------------------------------
(* Spec: the page's schema, requests served one after the other *)

InitStores ==
    {[k \in StoreKeys |->
        IF k = "receiver_name" THEN PyStr("Old")
        ELSE IF k = "aprs_igate_enabled" THEN g
        ELSE IF k = "sdrs" THEN s[1]
        ELSE IF k = UnclaimedField THEN s[2]
        ELSE Absent] :
        g \in {Absent, PyBool(TRUE), PyBool(FALSE)},
        s \in {<<Absent, Absent>>, <<SdrDevices, PyStr("kept")>>}}

Init ==
    /\ sections = GeneralSettingsSections
    /\ config \in InitStores
    /\ disk = config
    /\ ThreadInit

Next ==
    \/ Begin("t1", Forms)
    \/ ParseSection("t1")
    \/ ApplyKey("t1")
    \/ DeleteKey("t1")
    \/ Store("t1")
    \/ Redirect("t1")
    \/ Finish("t1")

Spec == Init /\ [][Next]_vars

----------------------------------------------------------------------------
(* SpecConc: two handler threads serving requests at the same time.  The   *)
(* steps of processFormData are the units of interleaving.                 *)

\* two submissions that both leave out most fields: one sets what the
\* other removes
ConcForms ==
    {ExampleForm,
     [NoForm EXCEPT !["aprs_igate_enabled"] = <<"on">>,
                    !["fst4_enabled_intervals"] = <<"60">>]}

InitConc ==
    /\ sections = GeneralSettingsSections
    /\ config = [k \in StoreKeys |->
                    IF k = "receiver_name" THEN PyStr("Old")
                    ELSE IF k = "aprs_igate_enabled" THEN PyBool(TRUE)
                    ELSE IF k = "sdrs" THEN SdrDevices
                    ELSE Absent]
    /\ disk = config
    /\ ThreadInit

NextConc ==
    \E t \in Threads :
        \/ Begin(t, ConcForms)
        \/ ParseSection(t)
        \/ ApplyKey(t)
        \/ DeleteKey(t)
        \/ Store(t)
        \/ Redirect(t)
        \/ Finish(t)

SpecConc == InitConc /\ [][NextConc]_vars

----------------------------------------------------------------------------
(* SpecSchema: a schema is built Section by Section from a pool of Inputs, *)
(* then the first request is served with it.                               *)

InputPool == {TextInput("receiver_name", Converter), CheckboxInput("receiver_name"),
              NumberInput("fft_fps", Converter)}

SchemaSize(secs) == Len(AllInputs(secs))

InputLists(n) == UNION {[1..m -> InputPool] : m \in 1..n}

\* Section.__init__, line 32-34: the title and the inputs are stored
SectionInit(title, inputs) == Section(title, inputs)

\* one more Section(...) literal of the sections list is evaluated
AddSection ==
    /\ nreq = 0
    /\ SchemaSize(sections) < MaxInputs
    /\ \E inputs \in InputLists(MaxInputs - SchemaSize(sections)) :
          sections' = Append(sections, SectionInit("Section", inputs))
    /\ UNCHANGED <<config, disk, pc, body, data, sec, idx, cfg0, disk0,
                   persistCalls, storeError, redirected, report, base, nreq>>

PoolForms ==
    {f \in Forms : \A k \in FormKeys \ {"receiver_name", "fft_fps", UnclaimedField} :
                      f[k] = << >>}

InitSchema ==
    /\ sections = << >>
    /\ config = [k \in StoreKeys |->
                    IF k = "receiver_name" THEN PyStr("Old") ELSE Absent]
    /\ disk = config
    /\ ThreadInit

NextSchema ==
    \/ AddSection
    \/ nreq = 0 /\ Begin("t1", PoolForms)
    \/ ParseSection("t1")
    \/ ApplyKey("t1")
    \/ DeleteKey("t1")
    \/ Store("t1")
    \/ Redirect("t1")
    \/ Finish("t1")

SpecSchema == InitSchema /\ [][NextSchema]_vars

----------------------------------------------------------------------------
(* Helpers of the properties *)

\* the loop of line 370-375 has run to its end
AfterLoop(t) == pc[t] \in {"store", "redirect", "done", "failed"}

\* store holds every entry of the dict d: a None entry's key is absent, any
\* other entry's key maps to the entry's value
HoldsDelta(store, d) ==
    \A n \in 1..Len(d) :
        IF d[n][2] = None THEN store[d[n][1]] = Absent
        ELSE store[d[n][1]] = d[n][2]

\* store is prior with the whole of d applied and nothing else changed
Whole(store, prior, d) ==
    /\ HoldsDelta(store, d)
    /\ \A k \in StoreKeys \ DictKeys(d) : store[k] = prior[k]

RECURSIVE FlattenAll(_, _, _)
\* line 368 as a whole, for a submission every Input accepts
FlattenAll(secs, raw, acc) ==
    IF secs = << >> THEN acc
    ELSE FlattenAll(Tail(secs), raw, DictUpdate(acc, SectionParse(secs[1], raw).items))

Reverse(q) == [n \in 1..Len(q) |-> q[Len(q) + 1 - n]]

ReverseSchema(secs) ==
    Reverse([n \in 1..Len(secs) |-> Section(secs[n].title, Reverse(secs[n].inputs))])

\* a dict as a mapping, its insertion order forgotten
Mapping(d) == [k \in DictKeys(d) |-> DictGet(d, k)]

CheckboxIds(secs) ==
    LET ins == AllInputs(secs) IN
    {ins[n].id : n \in {m \in 1..Len(ins) : ins[m].kind = "Checkbox"}}

MultiSelectIds(secs) ==
    LET ins == AllInputs(secs) IN
    {ins[n].id : n \in {m \in 1..Len(ins) : ins[m].kind \in MultiSelectKinds}}

\* the store {receiver_name: "Old"}, aprs_igate_enabled absent, true or false
ExampleStart(c) ==
    /\ c["receiver_name"] = PyStr("Old")
    /\ \A k \in StoreKeys \ {"receiver_name", "aprs_igate_enabled"} : c[k] = Absent

\* the store {receiver_name: "New", fft_fps: 25}
ExampleResult ==
    [k \in StoreKeys |->
        IF k = "receiver_name" THEN PyStr("New")
        ELSE IF k = "fft_fps" THEN PyInt(25)
        ELSE Absent]

----------------------------------------------------------------------------
(* Properties *)

\* C1: once the loop of a write has run, every key of the flattened parse
\* result whose value is None is absent from the store, and every other key
\* maps to exactly its decoded value.
C1_DeltaApplied ==
    \A t \in Threads : AfterLoop(t) => HoldsDelta(config, data[t])

\* C1 witness: a finished write that removed a present key, met an absent
\* key with None, and overwrote a value.
C1_Witness ==
    /\ pc["t1"] = "done"
    /\ cfg0["t1"]["aprs_igate_enabled"] = PyBool(TRUE)
    /\ config["aprs_igate_enabled"] = Absent
    /\ cfg0["t1"]["fft_fps"] = Absent
    /\ body["t1"]["fft_fps"] = << >>
    /\ cfg0["t1"]["receiver_name"] = PyStr("Old")
    /\ config["receiver_name"] = PyStr("New")

\* C2: a request whose submission holds a field that some Input rejects
\* changes neither the store in memory nor the durable copy, never calls
\* Config.store() and sends no redirect.
C2_AllOrNothing ==
    \A t \in Threads :
        (pc[t] # "idle" /\ InvalidFields(sections, body[t]) # {}) =>
            /\ config = cfg0[t]
            /\ disk = disk0[t]
            /\ persistCalls[t] = 0
            /\ ~redirected[t]
            /\ pc[t] \in {"parse", "error"}

\* C2 witness: a request ended by a validation error in the fifth Section
\* although two earlier fields were valid and would have changed the store.
C2_Witness ==
    /\ pc["t1"] = "error"
    /\ report["t1"] = {"audio_compression"}
    /\ body["t1"]["receiver_name"] = <<"New">>
    /\ body["t1"]["fft_fps"] = <<"25">>
    /\ body["t1"]["aprs_igate_enabled"] = <<"on">>
    /\ cfg0["t1"]["receiver_name"] = PyStr("Old")

\* C3 (as claimed): the error of a rejected submission names exactly the
\* set of its invalid fields.
C3_AllFailuresReported ==
    \A t \in Threads :
        pc[t] = "error" => report[t] = InvalidFields(sections, body[t])

\* C4 (as claimed): the durable copy never holds only part of one request's
\* delta: while a thread is inside its loop, with some items applied and
\* others not, no Config.store() of another thread makes an applied item
\* durable without the rest.
C4_NoPartialPersist ==
    \A t \in Threads :
        (pc[t] \in {"apply", "del"} /\ ~HoldsDelta(disk, data[t])) =>
            \A n \in 1..(idx[t] - 1) :
                disk[data[t][n][1]] # base[t].disk[data[t][n][1]] =>
                    ~HoldsDelta(disk, <<data[t][n]>>)

\* C5: after Config.store() raised, no redirect is sent, the store in memory
\* holds the whole delta of the request or none of it, and so does the
\* durable copy.
C5_FailedPersist ==
    \A t \in Threads :
        storeError[t] =>
            /\ ~redirected[t]
            /\ pc[t] = "failed"
            /\ Whole(config, cfg0[t], data[t]) \/ config = cfg0[t]
            /\ Whole(disk, disk0[t], data[t]) \/ disk = disk0[t]

\* C5 witness: a failed persist of a request whose delta changes the store.
C5_Witness ==
    /\ pc["t1"] = "failed"
    /\ storeError["t1"]
    /\ config # cfg0["t1"]
    /\ disk = disk0["t1"]
    /\ disk # config

\* C6 (as claimed): no request is served with a schema in which two Inputs
\* claim the same key.
C6_DuplicateKeysRejected == nreq > 0 => UniqueKeys(sections)

\* C7 (as claimed): from the store {receiver_name: "Old"}, whatever
\* aprs_igate_enabled was, the submission receiver_name=New, fft_fps=25
\* yields exactly the store {receiver_name: "New", fft_fps: 25}.
C7_ExampleAsClaimed ==
    \A t \in Threads :
        (pc[t] = "done" /\ ExampleStart(cfg0[t]) /\ body[t] = ExampleForm) =>
            config = ExampleResult

\* C7 (amended): that submission yields the store {receiver_name: "New",
\* fft_fps: 25} plus every multi-select key of the schema with the empty
\* selection; and after the loop of any write the key of a checkbox whose
\* field was omitted is absent, the key of a checkbox whose field was
\* present is true.
C7_CheckboxAbsence ==
    \A t \in Threads :
        /\ (pc[t] = "done" /\ ExampleStart(cfg0[t]) /\ body[t] = ExampleForm) =>
              config = [k \in StoreKeys |->
                           IF k \in MultiSelectIds(sections) THEN PyList(<< >>)
                           ELSE ExampleResult[k]]
        /\ AfterLoop(t) =>
              \A k \in CheckboxIds(sections) :
                  IF body[t][k] = << >> THEN config[k] = Absent
                  ELSE config[k] = PyBool(TRUE)

\* C7 witness: the example submission, finished, from a store in which
\* aprs_igate_enabled was true.
C7_Witness ==
    /\ pc["t1"] = "done"
    /\ body["t1"] = ExampleForm
    /\ ExampleStart(cfg0["t1"])
    /\ cfg0["t1"]["aprs_igate_enabled"] = PyBool(TRUE)
    /\ config["aprs_igate_enabled"] = Absent

\* C8: within a request the store is untouched until every Section is
\* parsed, Config.store() is not called before the whole delta is applied
\* and is called once, and a redirect is sent only after it returned, when
\* the durable copy holds the whole delta.
C8_WriteOrdering ==
    \A t \in Threads :
        /\ pc[t] = "parse" => (config = cfg0[t] /\ persistCalls[t] = 0)
        /\ pc[t] \in {"apply", "del"} =>
              (sec[t] > Len(sections) /\ persistCalls[t] = 0)
        /\ pc[t] = "store" => persistCalls[t] = 0
        /\ persistCalls[t] <= 1
        /\ persistCalls[t] = 1 => Whole(config, cfg0[t], data[t])
        /\ pc[t] \in {"redirect", "done"} =>
              (persistCalls[t] = 1 /\ ~storeError[t] /\ Whole(disk, cfg0[t], data[t]))
        /\ redirected[t] => pc[t] = "done"

\* C8 witness: a redirect was sent for a request that changed the store.
C8_Witness ==
    /\ redirected["t1"]
    /\ config # cfg0["t1"]
    /\ disk = config
    /\ Len(data["t1"]) = Len(AllInputs(sections))

\* C9: the dict of line 368 has exactly the keys the Inputs return, None
\* entries included; when no two Inputs share a key each key maps to the
\* value its Input returned and the mapping is the same for the schema read
\* in the opposite order.
C9_FlattenIsUnion ==
    \A t \in Threads :
        (pc[t] \in {"apply", "del", "store", "redirect", "done", "failed"}) =>
            /\ LET ins == AllInputs(sections) IN
               DictKeys(data[t]) =
                  UNION {DictKeys(InputParse(ins[n], body[t]).items) : n \in 1..Len(ins)}
            /\ UniqueKeys(sections) =>
                  /\ LET ins == AllInputs(sections) IN
                     \A n \in 1..Len(ins) :
                        LET r == InputParse(ins[n], body[t]) IN
                        DictGet(data[t], r.items[1][1]) = r.items[1][2]
                  /\ Mapping(data[t]) =
                        Mapping(FlattenAll(ReverseSchema(sections), body[t], << >>))

\* C9 witness: a parsed submission of a two-Section schema with disjoint
\* keys whose result keeps a None entry.
C9_Witness ==
    /\ pc["t1"] = "apply"
    /\ Len(sections) = 2
    /\ UniqueKeys(sections)
    /\ Len(data["t1"]) = 2
    /\ \E n \in 1..Len(data["t1"]) : data["t1"][n][2] = None
    /\ \E n \in 1..Len(data["t1"]) : data["t1"][n][2] # None

\* C10: a write leaves every store key outside the flattened parse result
\* as it was, in particular 'sdrs' and a submitted field no Input claims;
\* nothing changes before the loop starts.
C10_Frame ==
    \A t \in Threads :
        pc[t] # "idle" =>
            /\ \A k \in StoreKeys \ SchemaKeys(sections) :
                  config[k] = cfg0[t][k] /\ disk[k] = disk0[t][k]
            /\ \A k \in StoreKeys \ DictKeys(data[t]) : config[k] = cfg0[t][k]
            /\ pc[t] \in {"parse", "error"} => config = cfg0[t]

\* C10 witness: a finished write that changed claimed keys while 'sdrs' and
\* the unclaimed submitted field's key were present in the store.
C10_Witness ==
    /\ pc["t1"] = "done"
    /\ nreq = MaxRequests
    /\ config # cfg0["t1"]
    /\ config["sdrs"] = SdrDevices
    /\ body["t1"][UnclaimedField] # << >>
    /\ config[UnclaimedField] = PyStr("kept")

====
